---- MODULE Spec2Model ----
(***************************************************************************)
(* Model of the camera-coverage checker (camera-coverage.ts, version 2.0.0) *)
(* of the repository.  checkCameraCoverage is a pure function: the state   *)
(* machine draws its arguments from bounded sets, calls it, and calls it   *)
(* again with one more camera appended to the list.                        *)
(*                                                                         *)
(* JavaScript values are modelled with uniformly shaped records:           *)
(*   Range   [kind, min, max]   kind "ok"         numeric, finite min/max  *)
(*                              kind "null"       the range is missing     *)
(*                              kind "nonNumeric" typeof min/max # number  *)
(*                              kind "nonFinite"  NaN or +-Infinity        *)
(*   Spec    [kind, distanceRange, lightRange]    kind "obj" or "null"     *)
(*   Camera  [kind, id, idType, distanceRange, lightRange]                 *)
(*   Array   [isArray, items]                                              *)
(* Coordinates are integers; a point of the continuous plane is sampled on *)
(* the half-integer lattice (coordinates doubled), which meets every cell, *)
(* edge and vertex of an arrangement of rectangles with integer corners.   *)
(*                                                                         *)
(* The module also models DeadlineService (deadline.service.ts): one       *)
(* subscription to getDeadline(), the requests it issues, the answers of   *)
(* the server and what reaches the subscriber and the console.             *)
(***************************************************************************)
EXTENDS Integers, Sequences, FiniteSets, TLC

\* the arguments of checkCameraCoverage, its result and the result of the call before
VARIABLES softwareSpec, hardwareCameras, result, prevResult

\* DeadlineService: its configuration; the pipeline of one getDeadline() subscription; the
\* requests it has issued; the last answer given to a request; the calls the subscriber
\* and the console have received
VARIABLES config, pipeline, requests, answer, subscriber, console, returned

coverageVars == <<softwareSpec, hardwareCameras, result, prevResult>>

deadlineVars == <<config, pipeline, requests, answer, subscriber, console, returned>>

\* the countdown component: its signals and lifecycle, and the subscriptions that
\* startCountdown() has made
VARIABLES component, pipelines

countdownVars == <<component, pipelines>>

vars == <<coverageVars, deadlineVars, countdownVars>>

(***************************************************************************)
(* Bounds of the model.                                                    *)
(***************************************************************************)
\* coordinates on both axes range over 0..MaxCoord
MaxCoord == 2
\* longest camera list passed to checkCameraCoverage
MaxCams == 2

Coords == 0..MaxCoord

(***************************************************************************)
(* Values.                                                                 *)
(***************************************************************************)
Range(lo, hi) == [kind |-> "ok", min |-> lo, max |-> hi]

NullRange == [kind |-> "null", min |-> 0, max |-> 0]

NonNumericRange == [kind |-> "nonNumeric", min |-> 0, max |-> 0]

NonFiniteRange == [kind |-> "nonFinite", min |-> 0, max |-> 0]

\* ranges that pass validateRange
ValidRanges == UNION {{Range(a, b) : b \in a..MaxCoord} : a \in Coords}

InvertedRange == Range(MaxCoord, 0)

MalformedRanges == {NullRange, NonNumericRange, NonFiniteRange, InvertedRange}

FullRange == Range(0, MaxCoord)

SoftwareCameraSpec(d, l) == [kind |-> "obj", distanceRange |-> d, lightRange |-> l]

NullSpec == [kind |-> "null", distanceRange |-> NullRange, lightRange |-> NullRange]

ValidSpecs == {SoftwareCameraSpec(d, l) : d \in ValidRanges, l \in ValidRanges}

MalformedSpecs ==
    {NullSpec}
        \cup {SoftwareCameraSpec(d, FullRange) : d \in MalformedRanges}
        \cup {SoftwareCameraSpec(FullRange, l) : l \in MalformedRanges}
        \cup {SoftwareCameraSpec(InvertedRange, NonFiniteRange), SoftwareCameraSpec(NonFiniteRange, InvertedRange)}

HardwareCamera(id, d, l) ==
    [kind |-> "obj", id |-> id, idType |-> "string", distanceRange |-> d, lightRange |-> l]

NullCamera ==
    [kind |-> "null", id |-> "", idType |-> "undefined", distanceRange |-> NullRange, lightRange |-> NullRange]

\* a camera whose id is a truthy value that is not a string
NonStringIdCamera ==
    [kind |-> "obj", id |-> "7", idType |-> "number", distanceRange |-> FullRange, lightRange |-> FullRange]

\* identifiers, in the order in which a caller first uses them
IdPool == <<"cam1", "cam2", "cam3", "cam4">>

ValidCameras(ids) == {HardwareCamera(id, d, l) : id \in ids, d \in ValidRanges, l \in ValidRanges}

MalformedCameras(ids) ==
    {NullCamera, NonStringIdCamera, HardwareCamera("", FullRange, FullRange)}
        \cup {HardwareCamera(id, InvertedRange, FullRange) : id \in ids}
        \cup {HardwareCamera(id, FullRange, NonFiniteRange) : id \in ids}
        \cup {HardwareCamera(id, NullRange, FullRange) : id \in ids}

Array(items) == [isArray |-> TRUE, items |-> items]

NotAnArray == [isArray |-> FALSE, items |-> <<>>]

(***************************************************************************)
(* Validation.  A validator returns the error it throws, or NoError.       *)
(***************************************************************************)
NoError == [what |-> "none", owner |-> "", id |-> "", axis |-> "", index |-> 0, min |-> 0, max |-> 0, ids |-> <<>>]

\* the name argument of validateRange: 'Distance range', 'Camera "<id>" light range', ...
RangeName(owner, id, axis) == [owner |-> owner, id |-> id, axis |-> axis]

RangeError(what, name, lo, hi) ==
    [what |-> what, owner |-> name.owner, id |-> name.id, axis |-> name.axis, index |-> 0, min |-> lo, max |-> hi, ids |-> <<>>]

\* validateRange with the last test written min >= max: a zero-width range is rejected
validateRange_RejectsEqual(range, name) ==
    IF range.kind = "null" THEN RangeError("is null or undefined", name, 0, 0)
    ELSE IF range.kind = "nonNumeric" THEN RangeError("must have numeric min and max values", name, 0, 0)
    ELSE IF range.kind = "nonFinite" THEN RangeError("must have finite min and max values", name, 0, 0)
    ELSE IF range.min >= range.max THEN RangeError("has min greater than max", name, range.min, range.max)
    ELSE NoError

validateRange(range, name) ==
    IF range.kind = "null" THEN RangeError("is null or undefined", name, 0, 0)
    ELSE IF range.kind = "nonNumeric" THEN RangeError("must have numeric min and max values", name, 0, 0)
    ELSE IF range.kind = "nonFinite" THEN RangeError("must have finite min and max values", name, 0, 0)
    ELSE IF range.min > range.max THEN RangeError("has min greater than max", name, range.min, range.max)
    ELSE NoError

\* validateSoftwareCameraSpec without the validation of the light range
validateSoftwareCameraSpec_DistanceOnly(spec) ==
    IF spec.kind = "null"
    THEN [NoError EXCEPT !.what = "Software camera specification is null or undefined", !.owner = "spec"]
    ELSE validateRange(spec.distanceRange, RangeName("spec", "", "Distance range"))

validateSoftwareCameraSpec(spec) ==
    IF spec.kind = "null"
    THEN [NoError EXCEPT !.what = "Software camera specification is null or undefined", !.owner = "spec"]
    ELSE LET e == validateRange(spec.distanceRange, RangeName("spec", "", "Distance range"))
         IN  IF e # NoError THEN e
             ELSE validateRange(spec.lightRange, RangeName("spec", "", "Light range"))

\* validateHardwareCamera without the validation of the light range
validateHardwareCamera_DistanceOnly(camera, index) ==
    IF camera.kind = "null"
    THEN [NoError EXCEPT !.what = "Hardware camera is null or undefined", !.owner = "camera", !.index = index]
    ELSE IF camera.id = "" \/ camera.idType # "string"
    THEN [NoError EXCEPT !.what = "Hardware camera has invalid or missing id", !.owner = "camera", !.index = index]
    ELSE validateRange(camera.distanceRange, RangeName("camera", camera.id, "distance range"))

\* index is the 0-based position of the camera in the array
validateHardwareCamera(camera, index) ==
    IF camera.kind = "null"
    THEN [NoError EXCEPT !.what = "Hardware camera is null or undefined", !.owner = "camera", !.index = index]
    ELSE IF camera.id = "" \/ camera.idType # "string"
    THEN [NoError EXCEPT !.what = "Hardware camera has invalid or missing id", !.owner = "camera", !.index = index]
    ELSE LET e == validateRange(camera.distanceRange, RangeName("camera", camera.id, "distance range"))
         IN  IF e # NoError THEN e
             ELSE validateRange(camera.lightRange, RangeName("camera", camera.id, "light range"))

\* ids.filter((id, index) => ids.indexOf(id) !== index)
DuplicateIds(ids) ==
    LET Dup(i) == \E k \in 1..(i - 1) : ids[k] = ids[i]
        F[i \in 0..Len(ids)] ==
            IF i = 0 THEN <<>>
            ELSE IF Dup(i) THEN Append(F[i - 1], ids[i]) ELSE F[i - 1]
    IN  F[Len(ids)]

\* validateHardwareCameras without the check for duplicate ids
validateHardwareCameras_NoDuplicateCheck(cameras) ==
    IF ~cameras.isArray
    THEN [NoError EXCEPT !.what = "Hardware cameras must be an array", !.owner = "cameras"]
    ELSE LET items == cameras.items
             bad == {i \in 1..Len(items) : validateHardwareCamera(items[i], i - 1) # NoError}
         IN  IF bad # {}
             THEN LET first == CHOOSE i \in bad : \A k \in bad : i <= k
                  IN  validateHardwareCamera(items[first], first - 1)
             ELSE NoError

validateHardwareCameras(cameras) ==
    IF ~cameras.isArray
    THEN [NoError EXCEPT !.what = "Hardware cameras must be an array", !.owner = "cameras"]
    ELSE LET items == cameras.items
             bad == {i \in 1..Len(items) : validateHardwareCamera(items[i], i - 1) # NoError}
         IN  IF bad # {}
             THEN LET first == CHOOSE i \in bad : \A k \in bad : i <= k
                  IN  validateHardwareCamera(items[first], first - 1)
             ELSE LET ids == [i \in 1..Len(items) |-> items[i].id]
                  IN  IF Len(ids) # Cardinality({ids[i] : i \in 1..Len(ids)})
                      THEN [NoError EXCEPT !.what = "Duplicate camera IDs found", !.owner = "cameras",
                                           !.ids = DuplicateIds(ids)]
                      ELSE NoError

(***************************************************************************)
(* Core algorithm.                                                         *)
(***************************************************************************)
cameraCoversPoint(camera, distance, lightLevel) ==
    /\ distance >= camera.distanceRange.min
    /\ distance <= camera.distanceRange.max
    /\ lightLevel >= camera.lightRange.min
    /\ lightLevel <= camera.lightRange.max

\* cameraCoversRegion without the two light comparisons
cameraCoversRegion_DistanceOnly(camera, distMin, distMax, lightMin, lightMax) ==
    /\ camera.distanceRange.min <= distMin
    /\ camera.distanceRange.max >= distMax

\* cameraCoversRegion with strict comparisons: ranges read as open intervals
cameraCoversRegion_OpenInterval(camera, distMin, distMax, lightMin, lightMax) ==
    /\ camera.distanceRange.min < distMin
    /\ camera.distanceRange.max > distMax
    /\ camera.lightRange.min < lightMin
    /\ camera.lightRange.max > lightMax

cameraCoversRegion(camera, distMin, distMax, lightMin, lightMax) ==
    /\ camera.distanceRange.min <= distMin
    /\ camera.distanceRange.max >= distMax
    /\ camera.lightRange.min <= lightMin
    /\ camera.lightRange.max >= lightMax

\* anyCoversRegion with every() in place of some()
anyCoversRegion_Every(cameras, distMin, distMax, lightMin, lightMax) ==
    \A k \in 1..Len(cameras) : cameraCoversRegion(cameras[k], distMin, distMax, lightMin, lightMax)

\* cameras is the plain sequence of cameras
anyCoversRegion(cameras, distMin, distMax, lightMin, lightMax) ==
    \E k \in 1..Len(cameras) : cameraCoversRegion(cameras[k], distMin, distMax, lightMin, lightMax)

\* Array.from(set).sort((a, b) => a - b)
RECURSIVE SortAscending(_)
SortAscending(S) ==
    IF S = {} THEN <<>>
    ELSE LET m == CHOOSE x \in S : \A y \in S : x <= y
         IN  <<m>> \o SortAscending(S \ {m})

\* collectBoundaries without the test that an endpoint lies in the target range
collectBoundaries_AllEndpoints(target, cameraRanges) ==
    SortAscending({target.min, target.max}
                      \cup {cameraRanges[k].min : k \in 1..Len(cameraRanges)}
                      \cup {cameraRanges[k].max : k \in 1..Len(cameraRanges)})

\* cameraRanges is a sequence of ranges
collectBoundaries(target, cameraRanges) ==
    LET InTarget(v) == v >= target.min /\ v <= target.max
        boundaries ==
            {target.min, target.max}
                \cup {cameraRanges[k].min : k \in {i \in 1..Len(cameraRanges) : InTarget(cameraRanges[i].min)}}
                \cup {cameraRanges[k].max : k \in {i \in 1..Len(cameraRanges) : InTarget(cameraRanges[i].max)}}
    IN  SortAscending(boundaries)

Max(a, b) == IF a >= b THEN a ELSE b

\* the significant bits of a Number, an IEEE 754 double
SignificandBits == 53

\* the arithmetic on bit strings below works on this many bits at a time
DigitBits == 12

Min(a, b) == IF a <= b THEN a ELSE b

\* a positive Number: bits is a bit string, most significant bit first and that bit 1, and the
\* value is (bits read as a binary integer) / 2^frac
Double(bits, frac) == [bits |-> bits, frac |-> frac]

\* the integer that a short bit string denotes
RECURSIVE BitsInt(_)
BitsInt(bits) ==
    LET n == Len(bits)
        h == n \div 2
    IN  IF n = 0 THEN 0
        ELSE IF n = 1 THEN bits[1]
        ELSE BitsInt(SubSeq(bits, 1, h)) * 2^(n - h) + BitsInt(SubSeq(bits, h + 1, n))

\* the last width bits of the integer n
IntBits(n, width) == [i \in 1..width |-> (n \div 2^(width - i)) % 2]

\* the number of bits of the integer n, 0 for 0
RECURSIVE BitLength(_)
BitLength(n) == IF n = 0 THEN 0 ELSE 1 + BitLength(n \div 2)

\* the binary integer bits * k + carry, DigitBits bits at a time from the last to the first
RECURSIVE TimesBits(_, _, _)
TimesBits(bits, k, carry) ==
    IF bits = <<>> THEN IntBits(carry, BitLength(carry))
    ELSE LET n == Len(bits)
             w == Min(n, DigitBits)
             v == BitsInt(SubSeq(bits, n - w + 1, n)) * k + carry
         IN  TimesBits(SubSeq(bits, 1, n - w), k, v \div 2^w) \o IntBits(v % 2^w, w)

\* the binary integer bits + 1
Increment(bits) == TimesBits(bits, 1, 1)

\* the result of an arithmetic operation: the exact value x rounded to the nearest Number,
\* ties to the even significand
RoundNearestEven(x) ==
    LET n == Len(x.bits)
        d == n - SignificandBits
        kept == SubSeq(x.bits, 1, SignificandBits)
        half == x.bits[SignificandBits + 1] = 1
        sticky == \E k \in (SignificandBits + 2)..n : x.bits[k] = 1
        up == half /\ (sticky \/ kept[SignificandBits] = 1)
    IN  IF d <= 0 THEN x
        ELSE Double(IF up THEN Increment(kept) ELSE kept, x.frac - d)

\* the number of zeros between the binary point and the first 1 of r / den, 0 < r < den
RECURSIVE LeadingZeros(_, _)
LeadingZeros(r, den) == IF 2 * r >= den THEN 0 ELSE 1 + LeadingZeros(2 * r, den)

\* the first n bits after the binary point of r / den, r < den, by long division DigitBits
\* bits at a time, followed by one more bit that is 1 when a remainder is left
RECURSIVE QuotientBits(_, _, _)
QuotientBits(r, den, n) ==
    IF n = 0 THEN <<IF r = 0 THEN 0 ELSE 1>>
    ELSE LET w == Min(n, DigitBits)
         IN  IntBits((r * 2^w) \div den, w) \o QuotientBits((r * 2^w) % den, den, n - w)

\* num / den for integers 0 < num < den
DoubleDivide(num, den) ==
    LET z == LeadingZeros(num, den)
    IN  RoundNearestEven(Double(QuotientBits(num * 2^z, den, SignificandBits + 1),
                                z + SignificandBits + 2))

\* x * k for a Number x and a positive integer k
DoubleTimes(x, k) == RoundNearestEven(Double(TimesBits(x.bits, k, 0), x.frac))

\* Math.round(x) for a Number x that has a fractional part: the integer part, plus one when
\* the fraction is a half or more
MathRound(x) ==
    LET n == Len(x.bits)
    IN  (IF n > x.frac THEN BitsInt(SubSeq(x.bits, 1, n - x.frac)) ELSE 0)
            + (IF n >= x.frac THEN x.bits[n - x.frac + 1] ELSE 0)

\* RoundPercent with Math.ceil in place of Math.round
RoundPercent_Ceiling(num, den) ==
    (100 * num + den - 1) \div den

\* Math.round((num / den) * 100) for 0 <= num <= den, in the arithmetic of Numbers: 0 / den
\* is 0 and den / den is 1 exactly
RoundPercent(num, den) ==
    IF num = 0 THEN 0
    ELSE IF num = den THEN 100
    ELSE MathRound(DoubleTimes(DoubleDivide(num, den), 100))

\* calculateStatistics reporting the covered cells in the uncoveredCells field
calculateStatistics_CoveredAsUncovered(totalCameras, distBoundaries, lightBoundaries, uncoveredCells) ==
    LET totalCells == Max(0, (distBoundaries - 1) * (lightBoundaries - 1))
        coveredCells == totalCells - uncoveredCells
        coveragePercentage == IF totalCells > 0 THEN RoundPercent(coveredCells, totalCells) ELSE 0
    IN  [totalCameras |-> totalCameras,
         distanceBoundaries |-> distBoundaries,
         lightBoundaries |-> lightBoundaries,
         gridCellsChecked |-> totalCells,
         uncoveredCells |-> coveredCells,
         coveragePercentage |-> coveragePercentage]

calculateStatistics(totalCameras, distBoundaries, lightBoundaries, uncoveredCells) ==
    LET totalCells == Max(0, (distBoundaries - 1) * (lightBoundaries - 1))
        coveredCells == totalCells - uncoveredCells
        coveragePercentage == IF totalCells > 0 THEN RoundPercent(coveredCells, totalCells) ELSE 0
    IN  [totalCameras |-> totalCameras,
         distanceBoundaries |-> distBoundaries,
         lightBoundaries |-> lightBoundaries,
         gridCellsChecked |-> totalCells,
         uncoveredCells |-> uncoveredCells,
         coveragePercentage |-> coveragePercentage]

(***************************************************************************)
(* Results.                                                                *)
(***************************************************************************)
\* the value of the statistics field of a result that carries none
NoStatistics ==
    [totalCameras |-> 0, distanceBoundaries |-> 0, lightBoundaries |-> 0,
     gridCellsChecked |-> 0, uncoveredCells |-> 0, coveragePercentage |-> 0]

Region(d, l) == [distanceRange |-> d, lightRange |-> l]

\* the messages with the percentage of the uncovered cells for P
Message_UncoveredPercent(class, error, cameras, regions, percent) ==
    [class |-> class, error |-> error, cameras |-> cameras, regions |-> regions,
     percent |-> IF class = "Coverage is incomplete" THEN 100 - percent ELSE percent]

\* the four messages of checkCameraCoverage
Message(class, error, cameras, regions, percent) ==
    [class |-> class, error |-> error, cameras |-> cameras, regions |-> regions, percent |-> percent]

NoMessage == Message("", NoError, 0, 0, 0)

\* kind "result": a CoverageResult was returned; "throw": an exception left the call
CoverageResult(isSufficient, message, hasRegions, regions, hasStatistics, statistics) ==
    [kind |-> "result", isSufficient |-> isSufficient, message |-> message,
     hasUncoveredRegions |-> hasRegions, uncoveredRegions |-> regions,
     hasStatistics |-> hasStatistics, statistics |-> statistics]

\* reading a property of null or undefined
TypeErrorThrown ==
    [kind |-> "throw", isSufficient |-> FALSE, message |-> NoMessage,
     hasUncoveredRegions |-> FALSE, uncoveredRegions |-> <<>>,
     hasStatistics |-> FALSE, statistics |-> NoStatistics]

\* no call has been made
NoResult == [TypeErrorThrown EXCEPT !.kind = "none"]

\* the cells of the grid in the order of the two nested loops
GridCells(distanceBoundaries, lightBoundaries) ==
    LET nd == Len(distanceBoundaries) - 1
        nl == Len(lightBoundaries) - 1
    IN  IF nd <= 0 \/ nl <= 0 THEN <<>>
        ELSE [k \in 1..(nd * nl) |->
                LET i == ((k - 1) \div nl) + 1
                    j == ((k - 1) % nl) + 1
                IN  Region(Range(distanceBoundaries[i], distanceBoundaries[i + 1]),
                           Range(lightBoundaries[j], lightBoundaries[j + 1]))]

\* the result built in the catch block; it reads softwareSpec.distanceRange
validationErrorResult(spec, error) ==
    IF spec.kind = "null" THEN TypeErrorThrown
    ELSE CoverageResult(FALSE, Message("Validation error", error, 0, 0, 0),
                        TRUE, <<Region(spec.distanceRange, spec.lightRange)>>,
                        FALSE, NoStatistics)

\* noCamerasResult without the uncoveredRegions field
noCamerasResult_NoRegions(spec) ==
    CoverageResult(FALSE, Message("No hardware cameras provided", NoError, 0, 0, 0),
                   FALSE, <<>>, TRUE, calculateStatistics(0, 2, 2, 1))

\* the result for an empty camera list
noCamerasResult(spec) ==
    CoverageResult(FALSE, Message("No hardware cameras provided", NoError, 0, 0, 0),
                   TRUE, <<Region(spec.distanceRange, spec.lightRange)>>,
                   TRUE, calculateStatistics(0, 2, 2, 1))

\* the two nested loops: the uncovered cells, in the order they are pushed
scanGrid(spec, cameras, distanceBoundaries, lightBoundaries) ==
    LET isWithinTarget(c) ==
            /\ c.distanceRange.min >= spec.distanceRange.min
            /\ c.distanceRange.max <= spec.distanceRange.max
            /\ c.lightRange.min >= spec.lightRange.min
            /\ c.lightRange.max <= spec.lightRange.max
        uncovered(c) ==
            /\ isWithinTarget(c)
            /\ ~anyCoversRegion(cameras, c.distanceRange.min, c.distanceRange.max,
                                c.lightRange.min, c.lightRange.max)
    IN  SelectSeq(GridCells(distanceBoundaries, lightBoundaries), uncovered)

checkCameraCoverage(spec, cameras) ==
    LET specError == validateSoftwareCameraSpec(spec)
        error == IF specError # NoError THEN specError ELSE validateHardwareCameras(cameras)
    IN  IF error # NoError THEN validationErrorResult(spec, error)
        ELSE IF Len(cameras.items) = 0 THEN noCamerasResult(spec)
        ELSE LET hw == cameras.items
                 distanceBoundaries ==
                     collectBoundaries(spec.distanceRange, [k \in 1..Len(hw) |-> hw[k].distanceRange])
                 lightBoundaries ==
                     collectBoundaries(spec.lightRange, [k \in 1..Len(hw) |-> hw[k].lightRange])
                 uncoveredRegions == scanGrid(spec, hw, distanceBoundaries, lightBoundaries)
                 statistics ==
                     calculateStatistics(Len(hw), Len(distanceBoundaries), Len(lightBoundaries),
                                         Len(uncoveredRegions))
             IN  IF Len(uncoveredRegions) = 0
                 THEN CoverageResult(TRUE, Message("Coverage is complete", NoError, Len(hw), 0, 0),
                                     FALSE, <<>>, TRUE, statistics)
                 ELSE CoverageResult(FALSE,
                                     Message("Coverage is incomplete", NoError, 0, Len(uncoveredRegions),
                                             statistics.coveragePercentage),
                                     TRUE, uncoveredRegions, TRUE, statistics)

(***************************************************************************)
(* DeadlineService.  Values.                                               *)
(*   Config      [apiUrl, timeoutMs, retryAttempts]                        *)
(*   secondsLeft [type, num, halves]  type is the typeof of the property   *)
(*               ("undefined" when it is missing, "null" for null); for a  *)
(*               number num is "finite", "NaN" or "Infinity" and halves is *)
(*               twice the value, so that 60.5 is 121                      *)
(*   Body        [kind, secondsLeft]  kind "obj", or "null" for no body    *)
(*   Error       [class, status, statusText, message]  what flows down the *)
(*               error channel of the pipe                                 *)
(*   Message     [text, status, detail]  the message of the Error that     *)
(*               handleError builds                                        *)
(***************************************************************************)
\* the largest retryAttempts a caller configures
MaxRetryAttempts == 3

\* the configuration a new service has
DefaultConfig == [apiUrl |-> "/api/deadline", timeoutMs |-> 10000, retryAttempts |-> 2]

ConfigFields == {"apiUrl", "timeoutMs", "retryAttempts"}

ConfigValues ==
    [apiUrl : {"/api/deadline", "/api/v2/deadline"},
     timeoutMs : {5000, 10000},
     retryAttempts : 0..MaxRetryAttempts]

\* the values a caller writes into a field
FieldValues(f) == {c[f] : c \in ConfigValues}

\* getConfig() calls
MaxGets == 2

\* the identity of the object this.config
ConfigObject == 0

\* Partial<DeadlineServiceConfig>: records with some of the fields
Partials == {[f \in S |-> c[f]] : c \in ConfigValues, S \in SUBSET ConfigFields}

\* Object.assign onto a target reset to the defaults
ObjectAssign_Replace(target, source) ==
    [f \in DOMAIN target \cup DOMAIN source |-> IF f \in DOMAIN source THEN source[f] ELSE DefaultConfig[f]]

\* Object.assign(target, source), the object target is left as
ObjectAssign(target, source) ==
    [f \in DOMAIN target \cup DOMAIN source |-> IF f \in DOMAIN source THEN source[f] ELSE target[f]]

SecondsLeft(type, num, halves) == [type |-> type, num |-> num, halves |-> halves]

Missing == SecondsLeft("undefined", "", 0)

\* the values of secondsLeft that are finite numbers: -5, 0, 60 and 60.5
FiniteSeconds == {SecondsLeft("number", "finite", h) : h \in {-10, 0, 120, 121}}

\* the values that are not: missing, null, a string, NaN, Infinity
InvalidSeconds ==
    {Missing, SecondsLeft("null", "", 0), SecondsLeft("string", "", 0),
     SecondsLeft("number", "NaN", 0), SecondsLeft("number", "Infinity", 0)}

Body(seconds) == [kind |-> "obj", secondsLeft |-> seconds]

NullBody == [kind |-> "null", secondsLeft |-> Missing]

Bodies == {NullBody} \cup {Body(v) : v \in FiniteSeconds \cup InvalidSeconds}

\* the failures a request is answered with: status and statusText of the HttpErrorResponse
Failures ==
    {<<0, "">>, <<304, "Not Modified">>, <<404, "Not Found">>, <<404, "">>,
     <<500, "">>, <<503, "Service Unavailable">>}

HttpErrorResponse(status, statusText) ==
    [class |-> "HttpErrorResponse", status |-> status, statusText |-> statusText,
     message |-> "Http failure response"]

\* what timeout() throws
TimeoutError == [class |-> "TimeoutError", status |-> 0, statusText |-> "", message |-> "Timeout has occurred"]

\* new Error(message)
Error(message) == [class |-> "Error", status |-> 0, statusText |-> "", message |-> message]

\* nothing was thrown
NoThrow == [class |-> "none", status |-> 0, statusText |-> "", message |-> ""]

ErrorMessage(text, status, detail) == [text |-> text, status |-> status, detail |-> detail]

(***************************************************************************)
(* DeadlineService.  validateResponse and handleError.                     *)
(***************************************************************************)
\* validateResponse without the Number.isFinite test
validateResponse_AnyNumber(response) ==
    IF response.kind = "null" THEN Error("API returned null or undefined response")
    ELSE IF response.secondsLeft.type \in {"undefined", "null"}
    THEN Error("API response missing \"secondsLeft\" property")
    ELSE IF response.secondsLeft.type # "number"
    THEN Error("Invalid data type for \"secondsLeft\": expected number, got " \o response.secondsLeft.type)
    ELSE NoThrow

\* the Error that validateResponse throws, or NoThrow when it returns the response
validateResponse(response) ==
    IF response.kind = "null" THEN Error("API returned null or undefined response")
    ELSE IF response.secondsLeft.type \in {"undefined", "null"}
    THEN Error("API response missing \"secondsLeft\" property")
    ELSE IF response.secondsLeft.type # "number"
    THEN Error("Invalid data type for \"secondsLeft\": expected number, got " \o response.secondsLeft.type)
    ELSE IF response.secondsLeft.num # "finite"
    THEN Error("Invalid value for \"secondsLeft\": " \o response.secondsLeft.num \o " (must be a finite number)")
    ELSE NoThrow

\* validateResponse calls console.warn for a negative value
warnsNegative(response) ==
    validateResponse(response) = NoThrow /\ response.secondsLeft.halves < 0

\* the errorMessage of handleError: it is logged, and thrown to the subscriber in a new Error
handleError(error) ==
    IF error.class = "HttpErrorResponse"
    THEN IF error.status = 0
         THEN ErrorMessage("Unable to connect to the server. Please check your internet connection.", 0, "")
         ELSE IF error.status >= 400 /\ error.status < 500
         THEN ErrorMessage("Client error", error.status,
                           IF error.statusText = "" THEN "Bad Request" ELSE error.statusText)
         ELSE IF error.status >= 500
         THEN ErrorMessage("Server error", error.status,
                           IF error.statusText = "" THEN "Internal Server Error" ELSE error.statusText)
         ELSE ErrorMessage("HTTP error", error.status, error.message)
    ELSE IF error.class \in {"TimeoutError", "Error"}
    THEN IF error.class = "TimeoutError"
         THEN ErrorMessage("Request timed out. Please try again.", 0, "")
         ELSE ErrorMessage(error.message, 0, "")
    ELSE ErrorMessage("An unknown error occurred", 0, "")

(***************************************************************************)
(* DeadlineCountdownComponent.  Values.                                    *)
(***************************************************************************)
\* startCountdown() calls of one component instance
MaxStarts == 3

\* emissions of one timer(0, 1000)
MaxTicks == 4

\* console.warn calls of start()
MaxWarns == 1

\* the values of secondsLeft that a fetch returns
Seconds == {-1, 0, 2}

\* the messages of the errors that getDeadline() throws
FetchErrors ==
    {"Request timed out. Please try again.", "API returned null or undefined response"}

\* error(): null, or a message
NullError == [isNull |-> TRUE, text |-> ""]

ErrorText(text) == [isNull |-> FALSE, text |-> text]

\* err?.message || 'Failed to load deadline. Please try again.'
UserMessage(message) ==
    IF message = "" THEN "Failed to load deadline. Please try again." ELSE message

\* one subscription made by startCountdown(): the fetch, then the timer, with the
\* response value and the number of emissions of its timer so far, or the message of
\* the Error that the fetch threw
Pipeline(phase, byRetry, seconds, ticks) ==
    [phase |-> phase, byRetry |-> byRetry, seconds |-> seconds, ticks |-> ticks, message |-> ""]

\* the subscription is not over: its fetch is pending or its timer is running
Live(p) == p.phase \in {"fetching", "counting"}

(***************************************************************************)
(* DeadlineCountdownComponent.  The state machine of one component         *)
(* instance: the lifecycle hooks, the public methods, the answers of the   *)
(* fetches and the emissions of the timers.  A fetch is one subscription   *)
(* to getDeadline(), which emits one validated response and completes, or  *)
(* throws one Error.  Time is abstract: a running timer may emit at any    *)
(* step.                                                                   *)
(***************************************************************************)
\* the component as constructed, with its inputs bound
ComponentConstructed(autoStart) ==
    /\ component = [autoStart |-> autoStart, lifecycle |-> "constructed", secondsLeft |-> 0,
                    loading |-> TRUE, error |-> NullError, retrying |-> FALSE, warns |-> 0]
    /\ pipelines = <<>>

(***************************************************************************)
(* DeadlineService.  The state machine of one subscription to              *)
(*   http.get(apiUrl).pipe(timeout(timeoutMs), retry(retryAttempts),       *)
(*                         map(validateResponse), catchError(handleError)) *)
(* Every subscription to http.get issues one request.  An answer, or the   *)
(* expiry of the timer of timeout(), travels down the whole pipe in one    *)
(* step.  Time is abstract: the timer may expire while a request is open.  *)
(***************************************************************************)
\* no getDeadline() yet
NoPipeline == [phase |-> "none", apiUrl |-> "", retryAttempts |-> 0, retried |-> 0]

NoRequests == [issued |-> 0, open |-> 0, failed |-> 0]

NoAnswer == [kind |-> "none", status |-> 0, statusText |-> "", body |-> NullBody]

\* the service as constructed, no subscription
ServiceConstructed ==
    /\ config = DefaultConfig
    /\ pipeline = NoPipeline
    /\ requests = NoRequests
    /\ answer = NoAnswer
    /\ subscriber = [next |-> <<>>, error |-> <<>>, complete |-> FALSE]
    /\ console = [error |-> <<>>, warn |-> 0]
    /\ returned = <<>>

\* no call of checkCameraCoverage
NoCoverageCall ==
    /\ softwareSpec = NullSpec
    /\ hardwareCameras = Array(<<>>)
    /\ result = NoResult
    /\ prevResult = NoResult

InitDeadline == ServiceConstructed /\ NoCoverageCall /\ ComponentConstructed(TRUE)

updateConfig(partial) ==
    /\ config' = ObjectAssign(config, partial)
    /\ UNCHANGED <<pipeline, requests, answer, subscriber, console, returned, coverageVars, countdownVars>>

\* getDeadline() and the subscription to what it returns: the pipe is built from the
\* configuration of the moment and the first request is issued
getDeadline ==
    /\ pipeline.phase = "none"
    /\ pipeline' = [phase |-> "waiting", apiUrl |-> config.apiUrl,
                    retryAttempts |-> config.retryAttempts, retried |-> 0]
    /\ requests' = [issued |-> 1, open |-> 1, failed |-> 0]
    /\ UNCHANGED <<config, answer, subscriber, console, returned, coverageVars, countdownVars>>

\* catchError: handleError logs its message and throws it to the subscriber
Caught(error) ==
    /\ console' = [console EXCEPT !.error = Append(@, handleError(error))]
    /\ subscriber' = [subscriber EXCEPT !.error = Append(@, handleError(error))]

\* AttemptFailed with a retry() that subscribes once more than its count
AttemptFailed_OneMore(error) ==
    /\ IF pipeline.retried <= pipeline.retryAttempts
       THEN /\ pipeline' = [pipeline EXCEPT !.retried = @ + 1]
            /\ requests' = [issued |-> requests.issued + 1, open |-> requests.open - 1 + 1,
                            failed |-> requests.failed + 1]
            /\ UNCHANGED <<subscriber, console>>
       ELSE /\ pipeline' = [pipeline EXCEPT !.phase = "done"]
            /\ requests' = [requests EXCEPT !.open = @ - 1, !.failed = @ + 1]
            /\ Caught(error)

\* the open request ends with an error: retry() subscribes to http.get again, which issues
\* a new request, while it has retried fewer than retryAttempts times; otherwise the error
\* goes on past map() to catchError()
AttemptFailed(error) ==
    /\ IF pipeline.retried < pipeline.retryAttempts
       THEN /\ pipeline' = [pipeline EXCEPT !.retried = @ + 1]
            /\ requests' = [issued |-> requests.issued + 1, open |-> requests.open - 1 + 1,
                            failed |-> requests.failed + 1]
            /\ UNCHANGED <<subscriber, console>>
       ELSE /\ pipeline' = [pipeline EXCEPT !.phase = "done"]
            /\ requests' = [requests EXCEPT !.open = @ - 1, !.failed = @ + 1]
            /\ Caught(error)

\* the server answers the open request with a failure
RespondFailure(status, statusText) ==
    /\ pipeline.phase = "waiting" /\ requests.open > 0
    /\ answer' = [kind |-> "failure", status |-> status, statusText |-> statusText, body |-> NullBody]
    /\ AttemptFailed(HttpErrorResponse(status, statusText))
    /\ UNCHANGED <<config, returned, coverageVars, countdownVars>>

\* no answer within timeoutMs: timeout() drops the request and throws a TimeoutError
TimerExpires ==
    /\ pipeline.phase = "waiting" /\ requests.open > 0
    /\ answer' = [kind |-> "timeout", status |-> 0, statusText |-> "", body |-> NullBody]
    /\ AttemptFailed(TimeoutError)
    /\ UNCHANGED <<config, returned, coverageVars, countdownVars>>

\* the server answers the open request with a body: map() validates it; a valid body is
\* emitted and the subscription completes, an invalid one goes to catchError()
RespondSuccess(body) ==
    /\ pipeline.phase = "waiting" /\ requests.open > 0
    /\ answer' = [kind |-> "success", status |-> 200, statusText |-> "OK", body |-> body]
    /\ requests' = [requests EXCEPT !.open = @ - 1]
    /\ pipeline' = [pipeline EXCEPT !.phase = "done"]
    /\ IF validateResponse(body) = NoThrow
       THEN /\ subscriber' = [subscriber EXCEPT !.next = Append(@, body), !.complete = TRUE]
            /\ console' = [console EXCEPT !.warn = IF warnsNegative(body) THEN @ + 1 ELSE @]
       ELSE Caught(validateResponse(body))
    /\ UNCHANGED <<config, returned, coverageVars, countdownVars>>

\* getConfig() returning this.config itself
getConfig_SameObject ==
    /\ Len(returned) < MaxGets
    /\ returned' = Append(returned, [id |-> ConfigObject, fields |-> config])
    /\ UNCHANGED <<config, pipeline, requests, answer, subscriber, console, coverageVars, countdownVars>>

\* getConfig(): the spread makes a new object with the fields of this.config
getConfig ==
    /\ Len(returned) < MaxGets
    /\ returned' = Append(returned, [id |-> Len(returned) + 1, fields |-> config])
    /\ UNCHANGED <<config, pipeline, requests, answer, subscriber, console, coverageVars, countdownVars>>

\* the caller writes a field of the k-th object that getConfig() returned (Readonly is a
\* compile-time type): the write is seen through every reference to that object
ChangeReturned(k, f, v) ==
    /\ returned[k].fields[f] # v
    /\ returned' = [j \in 1..Len(returned) |->
                        IF returned[j].id = returned[k].id
                        THEN [returned[j] EXCEPT !.fields[f] = v] ELSE returned[j]]
    /\ config' = IF returned[k].id = ConfigObject THEN [config EXCEPT ![f] = v] ELSE config
    /\ UNCHANGED <<pipeline, requests, answer, subscriber, console, coverageVars, countdownVars>>

NextConfig ==
    \/ \E partial \in Partials : updateConfig(partial)
    \/ getConfig
    \/ \E k \in 1..Len(returned), f \in ConfigFields : \E v \in FieldValues(f) : ChangeReturned(k, f, v)

SpecConfig == InitDeadline /\ [][NextConfig]_vars

NextDeadline ==
    \/ \E partial \in Partials : updateConfig(partial)
    \/ getDeadline
    \/ \E f \in Failures : RespondFailure(f[1], f[2])
    \/ TimerExpires
    \/ \E body \in Bodies : RespondSuccess(body)

SpecDeadline == InitDeadline /\ [][NextDeadline]_vars

\* the computed signal displaySeconds
displaySeconds == IF component.secondsLeft > 0 THEN component.secondsLeft ELSE 0

\* the computed signal isExpired
isExpired == component.secondsLeft <= 0 /\ ~component.loading

isRunning == ~component.loading /\ component.error.isNull /\ component.secondsLeft > 0

\* startCountdown() without the finalize() and takeUntilDestroyed() it sets up, which act
\* when the subscription ends
startCountdown(c, byRetry) ==
    /\ Len(pipelines) < MaxStarts
    /\ component' = [c EXCEPT !.loading = TRUE, !.error = NullError]
    /\ pipelines' = Append(pipelines, Pipeline("fetching", byRetry, 0, 0))

ngOnInit ==
    /\ component.lifecycle = "constructed"
    /\ IF component.autoStart
       THEN startCountdown([component EXCEPT !.lifecycle = "initialised"], FALSE)
       ELSE /\ component' = [component EXCEPT !.lifecycle = "initialised"]
            /\ UNCHANGED pipelines
    /\ UNCHANGED <<coverageVars, deadlineVars>>

retry ==
    /\ component.lifecycle = "initialised"
    /\ startCountdown([component EXCEPT !.retrying = TRUE], TRUE)
    /\ UNCHANGED <<coverageVars, deadlineVars>>

\* start() without its test of loading and error
start_Unguarded ==
    /\ component.lifecycle = "initialised"
    /\ startCountdown(component, FALSE)
    /\ UNCHANGED <<coverageVars, deadlineVars>>

start ==
    /\ component.lifecycle = "initialised"
    /\ IF ~component.loading /\ component.error.isNull
       THEN /\ component.warns < MaxWarns
            /\ component' = [component EXCEPT !.warns = @ + 1]
            /\ UNCHANGED pipelines
       ELSE startCountdown(component, FALSE)
    /\ UNCHANGED <<coverageVars, deadlineVars>>

\* the fetch of subscription i emits its response: tap() stores the value and clears
\* loading, switchMap() starts the timer
FetchSucceeds(i, seconds) ==
    /\ pipelines[i].phase = "fetching"
    /\ component' = [component EXCEPT !.secondsLeft = seconds, !.loading = FALSE]
    /\ pipelines' = [pipelines EXCEPT ![i] = Pipeline("counting", @.byRetry, seconds, 0)]
    /\ UNCHANGED <<coverageVars, deadlineVars>>

\* FetchFails with a catchError() that sets one fixed message
FetchFails_FixedMessage(i, message) ==
    /\ pipelines[i].phase = "fetching"
    /\ component' = [component EXCEPT !.loading = FALSE, !.error = ErrorText(UserMessage("")),
                                      !.retrying = FALSE]
    /\ pipelines' = [pipelines EXCEPT ![i].phase = "failed", ![i].message = message]
    /\ UNCHANGED <<coverageVars, deadlineVars>>

\* the fetch of subscription i throws: catchError() clears loading and sets error, the
\* subscriber ignores the null, and finalize() clears retrying as the subscription completes
FetchFails(i, message) ==
    /\ pipelines[i].phase = "fetching"
    /\ component' = [component EXCEPT !.loading = FALSE, !.error = ErrorText(UserMessage(message)),
                                      !.retrying = FALSE]
    /\ pipelines' = [pipelines EXCEPT ![i].phase = "failed", ![i].message = message]
    /\ UNCHANGED <<coverageVars, deadlineVars>>

\* Tick for a timer whose first emission is 1
Tick_FromOne(i) ==
    /\ pipelines[i].phase = "counting"
    /\ pipelines[i].ticks < MaxTicks
    /\ component' = [component EXCEPT !.secondsLeft = pipelines[i].seconds - (pipelines[i].ticks + 1)]
    /\ pipelines' = [pipelines EXCEPT ![i].ticks = @ + 1]
    /\ UNCHANGED <<coverageVars, deadlineVars>>

\* the timer of subscription i emits its next number and the subscriber stores
\* response.secondsLeft - tick
Tick(i) ==
    /\ pipelines[i].phase = "counting"
    /\ pipelines[i].ticks < MaxTicks
    /\ component' = [component EXCEPT !.secondsLeft = pipelines[i].seconds - pipelines[i].ticks]
    /\ pipelines' = [pipelines EXCEPT ![i].ticks = @ + 1]
    /\ UNCHANGED <<coverageVars, deadlineVars>>

\* Destroy without the takeUntilDestroyed() of the subscriptions
Destroy_KeepsSubscriptions ==
    /\ component.lifecycle = "initialised"
    /\ component' = [component EXCEPT !.lifecycle = "destroyed"]
    /\ UNCHANGED pipelines
    /\ UNCHANGED <<coverageVars, deadlineVars>>

\* the component is destroyed: takeUntilDestroyed() ends every subscription that is not
\* over, and finalize() clears retrying for each of them
Destroy ==
    /\ component.lifecycle = "initialised"
    /\ component' = [component EXCEPT !.lifecycle = "destroyed",
                                      !.retrying = IF \E i \in 1..Len(pipelines) : Live(pipelines[i])
                                                   THEN FALSE ELSE @]
    /\ pipelines' = [i \in 1..Len(pipelines) |->
                        IF Live(pipelines[i]) THEN [pipelines[i] EXCEPT !.phase = "closed"]
                        ELSE pipelines[i]]
    /\ UNCHANGED <<coverageVars, deadlineVars>>

InitCountdown ==
    /\ \E autoStart \in BOOLEAN : ComponentConstructed(autoStart)
    /\ ServiceConstructed
    /\ NoCoverageCall

NextCountdown ==
    \/ ngOnInit
    \/ start
    \/ retry
    \/ \E i \in 1..Len(pipelines), seconds \in Seconds : FetchSucceeds(i, seconds)
    \/ \E i \in 1..Len(pipelines), message \in FetchErrors : FetchFails(i, message)
    \/ \E i \in 1..Len(pipelines) : Tick(i)
    \/ Destroy

SpecCountdown == InitCountdown /\ [][NextCountdown]_vars

(***************************************************************************)
(* The state machine: a caller draws a specification and an initial camera *)
(* argument, calls checkCameraCoverage, and calls it again each time it    *)
(* has appended a camera.                                                  *)
(***************************************************************************)
\* the four cameras that tile the target, meeting at the point (cx, cy)
QuadrantCameras(spec, cx, cy) ==
    Array(<<HardwareCamera(IdPool[1], Range(spec.distanceRange.min, cx), Range(spec.lightRange.min, cy)),
            HardwareCamera(IdPool[2], Range(cx, spec.distanceRange.max), Range(spec.lightRange.min, cy)),
            HardwareCamera(IdPool[3], Range(spec.distanceRange.min, cx), Range(cy, spec.lightRange.max)),
            HardwareCamera(IdPool[4], Range(cx, spec.distanceRange.max), Range(cy, spec.lightRange.max))>>)

\* the camera arguments a caller starts from: no cameras, something that is not an array,
\* or (for a valid target) four quadrant cameras
InitialCameras(spec) ==
    {Array(<<>>), NotAnArray}
        \cup IF spec \in ValidSpecs
             THEN {QuadrantCameras(spec, cx, cy) :
                      cx \in (spec.distanceRange.min)..(spec.distanceRange.max),
                      cy \in (spec.lightRange.min)..(spec.lightRange.max)}
             ELSE {}

Init ==
    /\ softwareSpec \in ValidSpecs \cup MalformedSpecs
    /\ hardwareCameras \in InitialCameras(softwareSpec)
    /\ result = NoResult
    /\ prevResult = NoResult
    /\ ServiceConstructed
    /\ ComponentConstructed(TRUE)

\* Call for a function that sorts its camera array in place by the start of the distance range
Call_SortsCameras ==
    /\ result.kind = "none"
    /\ result' = checkCameraCoverage(softwareSpec, hardwareCameras)
    /\ hardwareCameras' =
          LET cams == hardwareCameras.items
              p == CHOOSE q \in Permutations(1..Len(cams)) :
                       \A i, k \in 1..Len(cams) :
                           i < k => cams[q[i]].distanceRange.min <= cams[q[k]].distanceRange.min
          IN  [hardwareCameras EXCEPT !.items = [i \in 1..Len(cams) |-> cams[p[i]]]]
    /\ UNCHANGED <<softwareSpec, prevResult, deadlineVars, countdownVars>>

\* the first call, with the arguments as drawn; the function writes to neither argument
Call ==
    /\ result.kind = "none"
    /\ result' = checkCameraCoverage(softwareSpec, hardwareCameras)
    /\ UNCHANGED <<softwareSpec, hardwareCameras, prevResult, deadlineVars, countdownVars>>

\* the identifiers a caller may give the next camera: one already in use, or the next new one
NextIds == {IdPool[k] : k \in {i \in 1..Len(IdPool) : i <= Len(hardwareCameras.items) + 1}}

\* the caller appends camera c and calls again; the previous result is kept for comparison
CallWithAppended(c) ==
    /\ result.kind # "none"
    /\ hardwareCameras.isArray
    /\ Len(hardwareCameras.items) < MaxCams
    /\ hardwareCameras' = Array(Append(hardwareCameras.items, c))
    /\ prevResult' = result
    /\ result' = checkCameraCoverage(softwareSpec, hardwareCameras')
    /\ UNCHANGED <<softwareSpec, deadlineVars, countdownVars>>

Next ==
    \/ Call
    \/ \E c \in ValidCameras(NextIds) \cup MalformedCameras(NextIds) : CallWithAppended(c)

Spec == Init /\ [][Next]_vars

(***************************************************************************)
(* A second caller: the loop of the test 'should handle many small         *)
(* cameras', which pushes one unit camera per cell of the target, column   *)
(* by column, here with a call after every push.                           *)
(***************************************************************************)
\* the largest width and height of the target of the loop
MaxTiles == 10

\* the camera pushed for the loop indices i (distance) and j (light)
TileCamera(i, j) ==
    HardwareCamera("cam-" \o ToString(i) \o "-" \o ToString(j), Range(i, i + 1), Range(j, j + 1))

InitTiles ==
    /\ \E w, h \in 1..MaxTiles : softwareSpec = SoftwareCameraSpec(Range(0, w), Range(0, h))
    /\ hardwareCameras = Array(<<>>)
    /\ result = NoResult
    /\ prevResult = NoResult
    /\ ServiceConstructed
    /\ ComponentConstructed(TRUE)

\* the loop pushes its next camera and the caller calls again
CallWithPushed ==
    /\ result.kind # "none"
    /\ LET h == softwareSpec.lightRange.max
           k == Len(hardwareCameras.items)
       IN  /\ k < softwareSpec.distanceRange.max * h
           /\ hardwareCameras' = Array(Append(hardwareCameras.items, TileCamera(k \div h, k % h)))
    /\ prevResult' = result
    /\ result' = checkCameraCoverage(softwareSpec, hardwareCameras')
    /\ UNCHANGED <<softwareSpec, deadlineVars, countdownVars>>

NextTiles ==
    \/ Call
    \/ CallWithPushed

SpecTiles == InitTiles /\ [][NextTiles]_vars

(***************************************************************************)
(* A third caller: the same loop over a target wide enough for a grid of   *)
(* 200 cells, with a call after every push.                                *)
(***************************************************************************)
\* the width of the widest target of this caller; its height is MaxTiles
MaxColumns == 20

InitColumns ==
    /\ \E w \in {MaxColumns - 1, MaxColumns} :
            softwareSpec = SoftwareCameraSpec(Range(0, w), Range(0, MaxTiles))
    /\ hardwareCameras = Array(<<>>)
    /\ result = NoResult
    /\ prevResult = NoResult
    /\ ServiceConstructed
    /\ ComponentConstructed(TRUE)

SpecColumns == InitColumns /\ [][NextTiles]_vars

(***************************************************************************)
(* Vocabulary of the properties, stated without the validators.            *)
(***************************************************************************)
Called == result.kind # "none"

items == hardwareCameras.items

target == softwareSpec

WellFormedRange(r) == r.kind = "ok" /\ r.min <= r.max

WellFormedSpec(s) == s.kind = "obj" /\ WellFormedRange(s.distanceRange) /\ WellFormedRange(s.lightRange)

WellFormedCamera(c) ==
    /\ c.kind = "obj"
    /\ c.idType = "string"
    /\ c.id # ""
    /\ WellFormedRange(c.distanceRange)
    /\ WellFormedRange(c.lightRange)

UniqueIds(cams) == \A i, k \in 1..Len(cams) : cams[i].id = cams[k].id => i = k

\* a camera list that passes validation: an array of well-formed cameras with distinct ids
WellFormedCameras(cams) ==
    /\ cams.isArray
    /\ \A k \in 1..Len(cams.items) : WellFormedCamera(cams.items[k])
    /\ UniqueIds(cams.items)

WellFormedInput == WellFormedSpec(target) /\ WellFormedCameras(hardwareCameras)

\* min < max on both axes
ProperTarget == target.distanceRange.min < target.distanceRange.max /\ target.lightRange.min < target.lightRange.max

\* the points of the closed target rectangle, sampled at half-integers (coordinates doubled)
TargetPoints ==
    ((2 * target.distanceRange.min)..(2 * target.distanceRange.max))
        \X ((2 * target.lightRange.min)..(2 * target.lightRange.max))

\* the point p (doubled coordinates) lies in the closed rectangle of camera c
PointInCamera(c, p) ==
    /\ 2 * c.distanceRange.min <= p[1]
    /\ p[1] <= 2 * c.distanceRange.max
    /\ 2 * c.lightRange.min <= p[2]
    /\ p[2] <= 2 * c.lightRange.max

\* every point of the target lies in at least one camera of the list
UnionCovers(cams) == \A p \in TargetPoints : \E k \in 1..Len(cams) : PointInCamera(cams[k], p)

\* camera c alone contains the whole target
CameraContainsTarget(c) ==
    /\ c.distanceRange.min <= target.distanceRange.min
    /\ c.distanceRange.max >= target.distanceRange.max
    /\ c.lightRange.min <= target.lightRange.min
    /\ c.lightRange.max >= target.lightRange.max

(***************************************************************************)
(* C1.  For a valid target with min < max on both axes and a non-empty     *)
(* list of valid cameras with unique ids, isSufficient is true if and only *)
(* if every point of the closed target rectangle lies in the closed        *)
(* rectangle of at least one camera.                                       *)
(***************************************************************************)
C1_UnionCoverageExact ==
    (Called /\ WellFormedInput /\ ProperTarget /\ Len(items) > 0)
        => /\ result.kind = "result"
           /\ result.isSufficient <=> UnionCovers(items)

\* the union covers the target although no single camera does, and the call says sufficient
C1_Witness ==
    /\ Called /\ WellFormedInput /\ ProperTarget
    /\ Len(items) = 2
    /\ UnionCovers(items)
    /\ \A k \in 1..Len(items) : ~CameraContainsTarget(items[k])
    /\ result.isSufficient

(***************************************************************************)
(* C2.  When the target has min = max on an axis, that axis is one cell of *)
(* width zero and the call is sufficient exactly when the cameras cover    *)
(* the degenerate target: if no camera contains it, isSufficient is false. *)
(***************************************************************************)
DegenerateTarget ==
    \/ target.distanceRange.min = target.distanceRange.max
    \/ target.lightRange.min = target.lightRange.max

C2_DegenerateAxisDecided ==
    (Called /\ WellFormedInput /\ DegenerateTarget /\ Len(items) > 0)
        => /\ result.kind = "result"
           /\ result.isSufficient <=> UnionCovers(items)

(***************************************************************************)
(* C3.  Self-coverage: a single camera whose two ranges equal those of the *)
(* valid target yields isSufficient = true and coveragePercentage = 100.   *)
(***************************************************************************)
SelfCoverageInput ==
    /\ WellFormedInput
    /\ Len(items) = 1
    /\ items[1].distanceRange = target.distanceRange
    /\ items[1].lightRange = target.lightRange

C3_SelfCoverage ==
    (Called /\ SelfCoverageInput)
        => /\ result.kind = "result"
           /\ result.isSufficient
           /\ result.hasStatistics
           /\ result.statistics.coveragePercentage = 100

(***************************************************************************)
(* C4.  Monotonicity of sufficiency.  As stated: whenever the call on a    *)
(* list is sufficient, the call on the list with any camera appended is    *)
(* sufficient.  As amended: ... with a valid camera appended whose id does *)
(* not occur in the list.                                                  *)
(***************************************************************************)
\* the call before the last append returned a result
Appended == prevResult.kind = "result" /\ Len(items) > 0

LastCamera == items[Len(items)]

\* the appended camera is valid and its id is new
AppendedValidFresh ==
    /\ WellFormedCamera(LastCamera)
    /\ \A k \in 1..(Len(items) - 1) : items[k].id # LastCamera.id

C4_MonotoneAnyCamera ==
    (Appended /\ prevResult.isSufficient) => (result.kind = "result" /\ result.isSufficient)

C4_MonotoneValidCamera ==
    (Appended /\ prevResult.isSufficient /\ AppendedValidFresh)
        => (result.kind = "result" /\ result.isSufficient)

\* a sufficient list stays sufficient after a camera that covers nothing of the target is appended
C4_Witness ==
    /\ Appended /\ prevResult.isSufficient /\ AppendedValidFresh
    /\ ProperTarget
    /\ ~(\E p \in TargetPoints : PointInCamera(LastCamera, p))
    /\ result.isSufficient

(***************************************************************************)
(* C5.  Monotonicity of the uncovered count.  As stated: appending a       *)
(* camera never increases statistics.uncoveredCells.  As amended: ... a    *)
(* valid camera with a new id whose endpoints add no boundary to the grid  *)
(* (each endpoint inside the target range on an axis is already the        *)
(* target's min or max or an endpoint of an earlier camera on that axis).  *)
(***************************************************************************)
BothCarryStatistics == Appended /\ prevResult.hasStatistics /\ result.kind = "result" /\ result.hasStatistics

\* the grid lines on the two axes before the last camera was appended
EarlierDistanceLines ==
    {target.distanceRange.min, target.distanceRange.max}
        \cup UNION {{items[k].distanceRange.min, items[k].distanceRange.max} : k \in 1..(Len(items) - 1)}

EarlierLightLines ==
    {target.lightRange.min, target.lightRange.max}
        \cup UNION {{items[k].lightRange.min, items[k].lightRange.max} : k \in 1..(Len(items) - 1)}

AddsNoBoundary ==
    /\ \A v \in {LastCamera.distanceRange.min, LastCamera.distanceRange.max} :
          (target.distanceRange.min <= v /\ v <= target.distanceRange.max) => v \in EarlierDistanceLines
    /\ \A v \in {LastCamera.lightRange.min, LastCamera.lightRange.max} :
          (target.lightRange.min <= v /\ v <= target.lightRange.max) => v \in EarlierLightLines

C5_UncoveredCellsNeverGrow ==
    BothCarryStatistics => result.statistics.uncoveredCells <= prevResult.statistics.uncoveredCells

C5_UncoveredCellsSameGrid ==
    (BothCarryStatistics /\ AppendedValidFresh /\ AddsNoBoundary)
        => result.statistics.uncoveredCells <= prevResult.statistics.uncoveredCells

\* a camera on the existing grid lines covers a cell that was uncovered: the count drops, not to zero
C5_Witness ==
    /\ BothCarryStatistics /\ AppendedValidFresh /\ AddsNoBoundary
    /\ Len(items) = 2
    /\ result.statistics.uncoveredCells > 0
    /\ result.statistics.uncoveredCells < prevResult.statistics.uncoveredCells

(***************************************************************************)
(* C6.  No malformed input makes checkCameraCoverage throw: every call     *)
(* returns a CoverageResult, and for malformed input one with isSufficient *)
(* = false and a validation-error message.                                 *)
(***************************************************************************)
C6_NeverThrows ==
    Called => /\ result.kind = "result"
              /\ ~WellFormedInput => (~result.isSufficient /\ result.message.class = "Validation error")

(***************************************************************************)
(* C7.  Empty-input law: for every target, the call with the empty list    *)
(* returns isSufficient = false and uncoveredRegions equal to the single   *)
(* region made of the target's two ranges.                                 *)
(***************************************************************************)
EmptyList == hardwareCameras.isArray /\ Len(items) = 0

SpansLight(c) == c.lightRange.min <= target.lightRange.min /\ c.lightRange.max >= target.lightRange.max

SpansDistance(c) ==
    c.distanceRange.min <= target.distanceRange.min /\ c.distanceRange.max >= target.distanceRange.max

\* cameras a and b leave a gap on the distance axis inside the target
DistanceGap(a, b) ==
    /\ SpansLight(a) /\ SpansLight(b)
    /\ a.distanceRange.max < b.distanceRange.min
    /\ target.distanceRange.min <= a.distanceRange.max
    /\ b.distanceRange.min <= target.distanceRange.max

C8_GapDetected ==
    (Called /\ WellFormedInput /\ Len(items) = 2)
        => \A i, k \in 1..2 :
              DistanceGap(items[i], items[k])
                  => /\ result.kind = "result"
                     /\ ~result.isSufficient
                     /\ \E r \in 1..Len(result.uncoveredRegions) :
                           /\ items[i].distanceRange.max <= result.uncoveredRegions[r].distanceRange.min
                           /\ result.uncoveredRegions[r].distanceRange.max <= items[k].distanceRange.min

(***************************************************************************)
(* C9.  Closed-interval adjacency: two cameras that touch at one shared    *)
(* value on an axis, together span the target on that axis and each span   *)
(* it on the other axis are sufficient; so is every tiling of the target   *)
(* by cameras that share only edges, such as four quadrant cameras.        *)
(***************************************************************************)
TouchOnDistance(a, b) ==
    /\ a.distanceRange.max = b.distanceRange.min
    /\ a.distanceRange.min <= target.distanceRange.min
    /\ b.distanceRange.max >= target.distanceRange.max
    /\ SpansLight(a) /\ SpansLight(b)

TouchOnLight(a, b) ==
    /\ a.lightRange.max = b.lightRange.min
    /\ a.lightRange.min <= target.lightRange.min
    /\ b.lightRange.max >= target.lightRange.max
    /\ SpansDistance(a) /\ SpansDistance(b)

\* cameras a and b have no interior point in common (half-integer samples)
ShareOnlyEdges(a, b) ==
    \/ a.distanceRange.max <= b.distanceRange.min
    \/ b.distanceRange.max <= a.distanceRange.min
    \/ a.lightRange.max <= b.lightRange.min
    \/ b.lightRange.max <= a.lightRange.min

Tiling(cams) ==
    /\ UnionCovers(cams)
    /\ \A i, k \in 1..Len(cams) : i # k => ShareOnlyEdges(cams[i], cams[k])

C9_AdjacencySufficient ==
    (Called /\ WellFormedInput /\ Len(items) > 0)
        => /\ (Len(items) = 2 /\ \E i, k \in 1..2 :
                  TouchOnDistance(items[i], items[k]) \/ TouchOnLight(items[i], items[k]))
                 => result.isSufficient
           /\ Tiling(items) => result.isSufficient

\* two cameras meet at a value strictly inside the target and neither contains the target
C9_Witness ==
    /\ Called /\ WellFormedInput /\ Len(items) = 2
    /\ TouchOnDistance(items[1], items[2])
    /\ target.distanceRange.min < items[1].distanceRange.max
    /\ items[1].distanceRange.max < target.distanceRange.max
    /\ target.lightRange.min < target.lightRange.max
    /\ result.isSufficient

(***************************************************************************)
(* C10.  Boundary inclusivity: for a target that is a single point and a   *)
(* camera list containing a camera whose two ranges contain the point,     *)
(* isSufficient is true.                                                   *)
(***************************************************************************)
PointTarget ==
    /\ target.distanceRange.min = target.distanceRange.max
    /\ target.lightRange.min = target.lightRange.max

C10_PointTargetCovered ==
    (Called /\ WellFormedInput /\ PointTarget /\ \E k \in 1..Len(items) : CameraContainsTarget(items[k]))
        => (result.kind = "result" /\ result.isSufficient)

\* the point lies strictly inside the camera on both axes
C10_Witness ==
    /\ Called /\ WellFormedInput /\ PointTarget
    /\ Len(items) = 1
    /\ items[1].distanceRange.min < target.distanceRange.min
    /\ target.distanceRange.max < items[1].distanceRange.max
    /\ items[1].lightRange.min < target.lightRange.min
    /\ target.lightRange.max < items[1].lightRange.max
    /\ result.isSufficient

(***************************************************************************)
(* C11.  Duplicate ids.  As stated: whenever two cameras of the list share *)
(* an id, the call returns a validation error whose message is the         *)
(* duplicate-id message and lists every id that occurs more than once,     *)
(* whatever the ranges are.                                                *)
(***************************************************************************)
SharedId == hardwareCameras.isArray /\ ~UniqueIds(items)

\* the ids that occur more than once in the list
RepeatedIds == {items[i].id : i \in {k \in 1..Len(items) : \E m \in 1..Len(items) : m # k /\ items[m].id = items[k].id}}

\* the result is the duplicate-id validation error and lists exactly the repeated ids
DuplicateIdsReported ==
    /\ result.kind = "result"
    /\ ~result.isSufficient
    /\ result.message.class = "Validation error"
    /\ result.message.error.what = "Duplicate camera IDs found"
    /\ {result.message.error.ids[k] : k \in 1..Len(result.message.error.ids)} = RepeatedIds

C11_DuplicateIdsAlwaysReported ==
    (Called /\ SharedId) => DuplicateIdsReported

\* C11 as it holds: the duplicate-id error is reported when the target is valid and every
\* camera is valid by itself; an invalid target or an invalid camera is reported instead,
\* and for every target that is not null the result is a validation error all the same
EachCameraWellFormed == hardwareCameras.isArray /\ \A k \in 1..Len(items) : WellFormedCamera(items[k])

C11_DuplicateIdsReported ==
    (Called /\ SharedId)
        => /\ (WellFormedSpec(target) /\ EachCameraWellFormed) => DuplicateIdsReported
           /\ target.kind # "null"
                => /\ result.kind = "result"
                   /\ ~result.isSufficient
                   /\ result.message.class = "Validation error"

\* two valid cameras with one id that each contain the whole target: rejected as duplicates
C11_Witness ==
    /\ Called /\ SharedId /\ WellFormedSpec(target) /\ EachCameraWellFormed
    /\ ProperTarget
    /\ \A k \in 1..Len(items) : CameraContainsTarget(items[k])
    /\ DuplicateIdsReported
    /\ result.message.error.ids = <<"cam1">>

(***************************************************************************)
(* C12.  Target validation.  If the distance range or the light range of   *)
(* the target has min > max or a bound that is not finite, the call        *)
(* returns isSufficient = false with a 'Validation error' message that     *)
(* names an offending range of the target (the distance range when it is   *)
(* invalid, else the light range) and says what is wrong with it, for      *)
(* every camera argument, the empty list included.                         *)
(***************************************************************************)
Inverted(r) == r.kind = "ok" /\ r.min > r.max

Offending(r) == r.kind = "nonFinite" \/ Inverted(r)

OffendingTarget == target.kind = "obj" /\ (Offending(target.distanceRange) \/ Offending(target.lightRange))

\* the validation error e is about range r under the name axis
ReportsRange(e, r, axis) ==
    /\ e.axis = axis
    /\ r.kind = "nonFinite" => e.what = "must have finite min and max values"
    /\ Inverted(r) => e.what = "has min greater than max" /\ e.min = r.min /\ e.max = r.max

BadId(c) == c.kind = "obj" /\ (c.id = "" \/ c.idType # "string")

BadRange(c) == c.kind = "obj" /\ ~BadId(c) /\ (Offending(c.distanceRange) \/ Offending(c.lightRange))

SomeCameraDefective == hardwareCameras.isArray /\ \E k \in 1..Len(items) : BadId(items[k]) \/ BadRange(items[k])

\* the validation error e is about the camera at position k (1-based) of the list
ReportsCamera(e, k) ==
    /\ e.owner = "camera"
    /\ items[k].kind = "null" => e.what = "Hardware camera is null or undefined" /\ e.index = k - 1
    /\ BadId(items[k]) => e.what = "Hardware camera has invalid or missing id" /\ e.index = k - 1
    /\ (items[k].kind = "obj" /\ ~BadId(items[k]))
         => /\ e.id = items[k].id
            /\ e.axis = IF WellFormedRange(items[k].distanceRange) THEN "light range" ELSE "distance range"
            /\ e.what \in {"is null or undefined", "must have numeric min and max values",
                            "must have finite min and max values", "has min greater than max"}

\* a validation error without statistics, whose only region is the whole target
RejectedWithoutGeometry ==
    /\ result.kind = "result"
    /\ ~result.isSufficient
    /\ result.message.class = "Validation error"
    /\ ~result.hasStatistics
    /\ result.uncoveredRegions = <<Region(target.distanceRange, target.lightRange)>>

C13_DefectiveCameraAlwaysNamed ==
    (Called /\ SomeCameraDefective)
        => /\ RejectedWithoutGeometry
           /\ \E k \in 1..Len(items) :
                /\ BadId(items[k]) \/ BadRange(items[k])
                /\ ReportsCamera(result.message.error, k)

\* C13 as it holds: with a valid target the message identifies the first camera of the list
\* that fails validation; with an invalid target that is not null the result is still a
\* validation error without geometry, about the target
FirstInvalidCamera == CHOOSE k \in 1..Len(items) : ~WellFormedCamera(items[k]) /\ \A m \in 1..(k - 1) : WellFormedCamera(items[m])

C13_CameraValidation ==
    (Called /\ SomeCameraDefective)
        => /\ WellFormedSpec(target)
                => RejectedWithoutGeometry /\ ReportsCamera(result.message.error, FirstInvalidCamera)
           /\ target.kind # "null" => RejectedWithoutGeometry

\* a valid camera that contains the target, followed by a camera whose light range is not finite
C13_Witness ==
    /\ Called /\ WellFormedSpec(target) /\ ProperTarget
    /\ hardwareCameras.isArray /\ Len(items) = 2
    /\ WellFormedCamera(items[1]) /\ CameraContainsTarget(items[1])
    /\ items[2].lightRange.kind = "nonFinite"
    /\ RejectedWithoutGeometry
    /\ result.message.error.id = items[2].id
    /\ result.message.error.axis = "light range"

(***************************************************************************)
(* C14.  Every result carries a message of exactly one of four classes,    *)
(* determined by the outcome: a validation error with its detail when the  *)
(* input is invalid; no cameras provided when the input is valid and the   *)
(* list is empty; coverage incomplete, with N the number of uncovered      *)
(* regions and P the coveragePercentage of the statistics; coverage        *)
(* complete.  isSufficient is true only with the class complete.           *)
(***************************************************************************)
MessageClasses ==
    {"Validation error", "No hardware cameras provided", "Coverage is incomplete", "Coverage is complete"}

C14_MessageClasses ==
    result.kind = "result"
        => LET m == result.message
           IN  /\ m.class \in MessageClasses
               /\ m.class = "Validation error" <=> ~WellFormedInput
               /\ m.class = "Validation error" <=> m.error # NoError
               /\ m.class = "No hardware cameras provided" <=> (WellFormedInput /\ Len(items) = 0)
               /\ m.class = "Coverage is incomplete"
                    <=> (WellFormedInput /\ Len(items) > 0 /\ Len(result.uncoveredRegions) > 0)
               /\ m.class = "Coverage is incomplete"
                    => /\ m.regions = Len(result.uncoveredRegions)
                       /\ result.hasStatistics
                       /\ m.percent = result.statistics.coveragePercentage
               /\ m.class = "Coverage is complete" => m.cameras = Len(items)
               /\ result.isSufficient <=> m.class = "Coverage is complete"

\* an incomplete result with three uncovered regions out of four cells: N is 3 and P is 25
C14_Witness ==
    /\ result.kind = "result"
    /\ result.message.class = "Coverage is incomplete"
    /\ result.message.regions = 3
    /\ Len(result.uncoveredRegions) = 3
    /\ result.message.percent = 25
    /\ result.message.percent = result.statistics.coveragePercentage

(***************************************************************************)
(* C15.  Statistics arithmetic.  In every result that carries statistics,  *)
(* gridCellsChecked = max(0, (distanceBoundaries - 1) * (lightBoundaries - *)
(* 1)); coveragePercentage is 100 * (gridCellsChecked - uncoveredCells) /  *)
(* gridCellsChecked rounded to the nearest integer when gridCellsChecked   *)
(* is positive and 0 otherwise; totalCameras is the length of the camera   *)
(* list; and 0 <= uncoveredCells <= gridCellsChecked, so that              *)
(* 0 <= coveragePercentage <= 100.                                         *)
(***************************************************************************)
\* a / b rounded to the nearest integer, halves up, for a >= 0 and b > 0
RoundedQuotient(a, b) == (2 * a + b) \div (2 * b)

CarriesStatistics == result.kind = "result" /\ result.hasStatistics

C15_StatisticsArithmetic ==
    CarriesStatistics
        => LET s == result.statistics
           IN  /\ s.gridCellsChecked = Max(0, (s.distanceBoundaries - 1) * (s.lightBoundaries - 1))
               /\ s.coveragePercentage =
                    IF s.gridCellsChecked > 0
                    THEN RoundedQuotient(100 * (s.gridCellsChecked - s.uncoveredCells), s.gridCellsChecked)
                    ELSE 0
               /\ s.totalCameras = Len(items)
               /\ 0 <= s.uncoveredCells /\ s.uncoveredCells <= s.gridCellsChecked
               /\ 0 <= s.coveragePercentage /\ s.coveragePercentage <= 100

\* everything of C15 but the value of the percentage, which is within one of the rounded quotient
C15_StatisticsButRounding ==
    CarriesStatistics
        => LET s == result.statistics
               exact == IF s.gridCellsChecked > 0
                        THEN RoundedQuotient(100 * (s.gridCellsChecked - s.uncoveredCells), s.gridCellsChecked)
                        ELSE 0
           IN  /\ s.gridCellsChecked = Max(0, (s.distanceBoundaries - 1) * (s.lightBoundaries - 1))
               /\ s.coveragePercentage \in {exact - 1, exact}
               /\ s.totalCameras = Len(items)
               /\ 0 <= s.uncoveredCells /\ s.uncoveredCells <= s.gridCellsChecked
               /\ 0 <= s.coveragePercentage /\ s.coveragePercentage <= 100

LastAttemptFailed == answer.kind \in {"failure", "timeout"}

\* the last answer was a response whose body validateResponse accepts
ValidBodyReturned == answer.kind = "success" /\ validateResponse(answer.body) = NoThrow

\* a failed attempt is re-issued while fewer than retryAttempts retries were made: the
\* new request is open and the subscriber has heard nothing
FailedAttemptReissued ==
    LastAttemptFailed /\ requests.failed <= pipeline.retryAttempts
        => /\ requests.open = 1
           /\ requests.issued = requests.failed + 1
           /\ pipeline.retried = requests.failed
           /\ subscriber = [next |-> <<>>, error |-> <<>>, complete |-> FALSE]

\* a valid body of any attempt reaches the subscriber, and no error does
ValidBodyDelivered ==
    ValidBodyReturned
        => /\ subscriber.next = <<answer.body>>
           /\ subscriber.error = <<>>
           /\ requests.open = 0

AtMostAllAttempts == requests.issued <= pipeline.retryAttempts + 1

AllAttemptsFailed ==
    /\ requests.failed = pipeline.retryAttempts + 1
    /\ requests.issued = requests.failed

\* C18 as stated: failed attempts are re-issued up to retryAttempts times, a valid body of
\* any attempt is delivered without an error, one subscription issues at most
\* retryAttempts + 1 requests, and an error reaches the subscriber only after the
\* initial attempt and all retries have failed.
C18_ErrorOnlyAfterAllAttemptsFailed ==
    /\ FailedAttemptReissued
    /\ ValidBodyDelivered
    /\ AtMostAllAttempts
    /\ (subscriber.error # <<>> => AllAttemptsFailed)

\* C18: failed attempts are re-issued up to retryAttempts times, a valid body of any
\* attempt is delivered without an error, one subscription issues at most
\* retryAttempts + 1 requests, and the error of a failed attempt reaches the subscriber
\* only after the initial attempt and all retries have failed; the only other error the
\* subscriber gets is that of a response whose body is invalid, which may come sooner.
C18_RetryProtocol ==
    /\ FailedAttemptReissued
    /\ ValidBodyDelivered
    /\ AtMostAllAttempts
    /\ (subscriber.error # <<>>
            => /\ Len(subscriber.error) = 1
               /\ subscriber.next = <<>>
               /\ IF LastAttemptFailed
                  THEN AllAttemptsFailed
                  ELSE answer.kind = "success" /\ validateResponse(answer.body) # NoThrow)

\* with the default configuration the third failure in a row reaches the subscriber
C18_Witness ==
    /\ config = DefaultConfig
    /\ pipeline.retryAttempts = 2
    /\ requests = [issued |-> 3, open |-> 0, failed |-> 3]
    /\ answer.kind = "timeout"
    /\ Len(subscriber.error) = 1


(***************************************************************************)
(* C19.  An HTTP failure answer and the error callback.                    *)
(***************************************************************************)
\* the message that the claim gives for a failure status
ClassifiedByStatus(message, status) ==
    /\ status = 0
         => message.text = "Unable to connect to the server. Please check your internet connection."
    /\ status >= 400 /\ status < 500
         => message.text = "Client error" /\ message.status = status
    /\ status >= 500
         => message.text = "Server error" /\ message.status = status

\* the error callback was invoked once, with the classified message, which was logged
ErrorCallbackInvoked ==
    /\ Len(subscriber.error) = 1
    /\ subscriber.next = <<>>
    /\ ClassifiedByStatus(subscriber.error[1], answer.status)
    /\ console.error = subscriber.error

\* C19: when the request of getDeadline() to /api/deadline is answered with an HTTP
\* failure, the error callback is invoked with the message classified by the status, the
\* error is logged, and no request is left outstanding after that one failed response.
C19_FailureReachesErrorCallback ==
    /\ pipeline.apiUrl = "/api/deadline"
    /\ answer.kind = "failure"
    /\ requests.failed = 1
    => ErrorCallbackInvoked /\ requests.open = 0


\* C19 for the last attempt only: the failure answer that uses up the retries invokes the
\* error callback with the classified message, logged, and leaves no request outstanding
C19_LastFailureReachesErrorCallback ==
    /\ answer.kind = "failure"
    /\ requests.failed = pipeline.retryAttempts + 1
    => ErrorCallbackInvoked /\ requests.open = 0


(***************************************************************************)
(* C20.  Response validation of getDeadline().                             *)
(***************************************************************************)
\* the body is not null and its secondsLeft is a finite number
FiniteNumberBody(body) ==
    /\ body.kind = "obj"
    /\ body.secondsLeft.type = "number"
    /\ body.secondsLeft.num = "finite"

\* the message for a body that is not one
MatchingMessage(body) ==
    IF body.kind = "null" THEN "API returned null or undefined response"
    ELSE IF body.secondsLeft.type \in {"undefined", "null"}
    THEN "API response missing \"secondsLeft\" property"
    ELSE IF body.secondsLeft.type # "number"
    THEN "Invalid data type for \"secondsLeft\": expected number, got " \o body.secondsLeft.type
    ELSE "Invalid value for \"secondsLeft\": " \o body.secondsLeft.num \o " (must be a finite number)"

\* the last answer was a successful response and its body was emitted unchanged, with
\* no error, exactly when it is a finite-number body; otherwise the subscriber got
\* exactly one error, with the matching message, and no emission
EmittedIffValid ==
    IF FiniteNumberBody(answer.body)
    THEN /\ subscriber.next = <<answer.body>>
         /\ subscriber.error = <<>>
    ELSE /\ subscriber.next = <<>>
         /\ subscriber.error = <<ErrorMessage(MatchingMessage(answer.body), 0, "")>>
         /\ console.error = subscriber.error

\* no request follows the response: every request but the answered one had failed before
NotRetried ==
    /\ pipeline.phase = "done"
    /\ requests.open = 0
    /\ requests.issued = requests.failed + 1

\* C20 as stated: a successful response is emitted unchanged iff its body is not null
\* and secondsLeft is a finite number; otherwise there is exactly one error with the
\* matching message and no emission, and exactly one HTTP request is made.
C20_ExactlyOneRequest ==
    answer.kind = "success"
        => /\ EmittedIffValid
           /\ NotRetried
           /\ (~FiniteNumberBody(answer.body) => requests.issued = 1)

\* C20: a successful response is emitted unchanged iff its body is not null and
\* secondsLeft is a finite number; otherwise there is exactly one error with the matching
\* message and no emission, and the validation failure is not retried: no request is
\* issued after the response, so exactly one request is made unless attempts had
\* failed before it.
C20_ResponseValidation ==
    answer.kind = "success"
        => /\ EmittedIffValid
           /\ NotRetried
           /\ (~FiniteNumberBody(answer.body) /\ requests.failed = 0 => requests.issued = 1)

\* the first request is answered with secondsLeft NaN while two retries are left
C20_Witness ==
    /\ answer.kind = "success"
    /\ answer.body = Body(SecondsLeft("number", "NaN", 0))
    /\ pipeline.retryAttempts = 2
    /\ requests = [issued |-> 1, open |-> 0, failed |-> 0]
    /\ Len(subscriber.error) = 1


(***************************************************************************)
(* C21.  The countdown after a single fetch.                               *)
(***************************************************************************)
\* the component has made one fetch, which returned its value, and is not destroyed
SingleFetchReturned == Len(pipelines) = 1 /\ pipelines[1].phase = "counting"

\* the whole seconds since the value came: the number of the last emission of the timer
WholeSeconds(p) == IF p.ticks = 0 THEN 0 ELSE p.ticks - 1

\* secondsLeft() is n - k after k whole seconds, and displaySeconds() is max(0, secondsLeft())
CountsDown ==
    /\ component.secondsLeft = pipelines[1].seconds - WholeSeconds(pipelines[1])
    /\ displaySeconds >= 0
    /\ displaySeconds >= component.secondsLeft
    /\ displaySeconds \in {0, component.secondsLeft}
    /\ ~component.loading
    /\ component.error = NullError

\* C21: after a start whose single fetch returned secondsLeft = n, secondsLeft() is n at
\* once and n - k after k whole seconds, below zero too, displaySeconds() is
\* max(0, secondsLeft()), and no step of the component makes a further request: a
\* second fetch is made only by a call of retry().
C21_Countdown ==
    [][/\ SingleFetchReturned' => CountsDown'
       /\ SingleFetchReturned /\ Len(pipelines') > 1 => pipelines'[2].byRetry]_vars

\* the value 2 has been counted down to -1 and 0 is displayed
C21_Witness ==
    /\ SingleFetchReturned
    /\ pipelines[1].seconds = 2
    /\ pipelines[1].ticks = 4
    /\ component.secondsLeft = -1
    /\ displaySeconds = 0


(***************************************************************************)
(* C22.  Error and retry of the countdown component.                       *)
(***************************************************************************)
\* the subscription that the last startCountdown() made
Newest == pipelines[Len(pipelines)]

\* the last fetch made has failed: loading is false and error is the failure message
ShowsFailure ==
    Newest.phase = "failed"
        => /\ ~component.loading
           /\ component.error = ErrorText(Newest.message)

\* the last fetch made is that of a retry() and has returned n, and its timer has not
\* emitted yet: loading is false, error is null and secondsLeft is n
ShowsRetried ==
    Newest.byRetry /\ Newest.phase = "counting" /\ Newest.ticks = 0
        => /\ ~component.loading
           /\ component.error = NullError
           /\ component.secondsLeft = Newest.seconds

\* C22: when the fetch fails the component has loading = false and error set to the
\* failure message; after retry(), once the new fetch succeeds with n, the component has
\* loading = false, error = null and secondsLeft = n, and the countdown runs.
C22_ErrorAndRetry ==
    pipelines # <<>> => ShowsFailure /\ ShowsRetried

\* no subscription made before the newest is still fetching or counting
NoOlderLive == \A i \in 1..Len(pipelines) - 1 : ~Live(pipelines[i])

\* C22 for a fetch that no older subscription has interfered with: while loading is still
\* true and no older fetch or timer is live, every step that ends the newest fetch leaves
\* the component as the claim says
C22_ErrorAndRetryAlone ==
    [][(/\ pipelines # <<>> /\ pipelines' # <<>>
        /\ Newest.phase = "fetching" /\ NoOlderLive /\ component.loading)
            => ShowsFailure' /\ ShowsRetried']_vars


(***************************************************************************)
(* C23.  Cleanup on destroy.                                               *)
(***************************************************************************)
\* the signals that the fetch results and the timers write
Signals == <<component.secondsLeft, component.loading, component.error>>

Destroyed == component.lifecycle = "destroyed"

\* C23: once the component is destroyed no subscription is left with a pending fetch or
\* a running timer, and no step changes secondsLeft, loading or error any more.
C23_CleanupOnDestroy ==
    [][/\ Destroyed' => \A i \in 1..Len(pipelines') : ~Live(pipelines'[i])
       /\ Destroyed => Signals' = Signals]_vars

\* destroyed after three starts: the first fetch had failed, the timer of the second was
\* running and the third fetch, made by retry(), was pending
C23_Witness ==
    /\ Destroyed
    /\ Len(pipelines) = 3
    /\ pipelines[1].phase = "failed"
    /\ pipelines[2].phase = "closed" /\ pipelines[2].ticks = 2
    /\ pipelines[3].phase = "closed" /\ pipelines[3].byRetry /\ pipelines[3].ticks = 0
    /\ component.loading


(***************************************************************************)
(* C24.  The configuration of the service.                                 *)
(***************************************************************************)
\* the configuration differs from config in exactly the fields of the partial, which
\* have the values of the partial
ExactlyFieldsOf(partial) ==
    \A f \in ConfigFields :
        config'[f] = IF f \in DOMAIN partial THEN partial[f] ELSE config[f]

\* the step is a getConfig(): it returns an object that is none of those returned before
\* and not the configuration itself, with the values of the configuration, which it
\* leaves as it is
ReturnsFreshCopy ==
    Len(returned') > Len(returned)
        => /\ returned'[Len(returned')].fields = config
           /\ returned'[Len(returned')].id # ConfigObject
           /\ \A j \in 1..Len(returned) : returned'[j].id # returned'[Len(returned')].id
           /\ config' = config

\* the step changes an object that getConfig() returned: the configuration, and any
\* other object returned, is left as it is
ReturnedObjectIsDetached ==
    Len(returned') = Len(returned) /\ returned' # returned
        => /\ config' = config
           /\ Cardinality({j \in 1..Len(returned) : returned'[j] # returned[j]}) = 1

\* C24: the defaults are apiUrl '/api/deadline', timeoutMs 10000, retryAttempts 2;
\* updateConfig(partial) changes exactly the fields present in the partial; getConfig()
\* returns a fresh copy each time, and changing a returned object never changes the
\* configuration of the service.
C24_Configuration ==
    /\ config = [apiUrl |-> "/api/deadline", timeoutMs |-> 10000, retryAttempts |-> 2]
    /\ [][/\ \A partial \in Partials : updateConfig(partial) => ExactlyFieldsOf(partial)
          /\ ReturnsFreshCopy
          /\ ReturnedObjectIsDetached]_vars

\* two copies were returned, the first before and the second after an update of
\* retryAttempts alone, and the caller has changed the apiUrl of the second
C24_Witness ==
    /\ Len(returned) = 2
    /\ returned[1].fields = DefaultConfig
    /\ returned[2].fields = [apiUrl |-> "/api/v2/deadline", timeoutMs |-> 10000, retryAttempts |-> 3]
    /\ config = [apiUrl |-> "/api/deadline", timeoutMs |-> 10000, retryAttempts |-> 3]


(***************************************************************************)
(* C25.  Boundary collection.                                              *)
(***************************************************************************)
\* the call went through the grid scan: the arguments were valid and there are cameras
GridScanned == result.hasStatistics /\ result.statistics.totalCameras > 0

\* the ranges of the cameras on one axis
AxisRanges(axis) ==
    [k \in 1..Len(hardwareCameras.items) |->
        IF axis = "distance" THEN hardwareCameras.items[k].distanceRange
        ELSE hardwareCameras.items[k].lightRange]

AxisTarget(axis) ==
    IF axis = "distance" THEN softwareSpec.distanceRange ELSE softwareSpec.lightRange

\* the list is strictly ascending, from target.min to target.max, and its values are
\* target.min, target.max and the camera endpoints within the target range, no other
WellFormedBoundaries(b, axisTarget, ranges) ==
    LET endpoints == {ranges[k].min : k \in 1..Len(ranges)} \cup {ranges[k].max : k \in 1..Len(ranges)}
    IN  /\ Len(b) >= 1
        /\ \A i \in 1..Len(b) - 1 : b[i] < b[i + 1]
        /\ b[1] = axisTarget.min
        /\ b[Len(b)] = axisTarget.max
        /\ {b[i] : i \in 1..Len(b)}
             = {axisTarget.min, axisTarget.max} \cup {v \in endpoints : axisTarget.min <= v /\ v <= axisTarget.max}
        /\ \A i \in 1..Len(b) : axisTarget.min <= b[i] /\ b[i] <= axisTarget.max

\* C25: for the valid target and the valid cameras of every call that scanned the grid,
\* collectBoundaries returns on each axis a strictly ascending list from target.min to
\* target.max that holds exactly target.min, target.max and the camera endpoints lying in
\* the target range; its length is the boundary count of the statistics.
C25_BoundaryCollection ==
    GridScanned =>
        /\ WellFormedBoundaries(collectBoundaries(AxisTarget("distance"), AxisRanges("distance")),
                                AxisTarget("distance"), AxisRanges("distance"))
        /\ WellFormedBoundaries(collectBoundaries(AxisTarget("light"), AxisRanges("light")),
                                AxisTarget("light"), AxisRanges("light"))
        /\ result.statistics.distanceBoundaries
             = Len(collectBoundaries(AxisTarget("distance"), AxisRanges("distance")))
        /\ result.statistics.lightBoundaries
             = Len(collectBoundaries(AxisTarget("light"), AxisRanges("light")))

\* a target 0..1 on the distance axis, a camera that ends at 2, outside it, and one that
\* starts at 1: two boundaries
C25_Witness ==
    /\ GridScanned
    /\ softwareSpec.distanceRange = Range(0, 1)
    /\ \E k \in 1..Len(hardwareCameras.items) : hardwareCameras.items[k].distanceRange = Range(0, 2)
    /\ \E k \in 1..Len(hardwareCameras.items) : hardwareCameras.items[k].distanceRange = Range(1, 1)
    /\ result.statistics.distanceBoundaries = 2


(***************************************************************************)
(* C26.  The uncovered-region report.                                      *)
(***************************************************************************)
\* the cells of one axis: the ranges between consecutive boundaries, and for an axis with
\* fewer than two boundaries the one cell that spans the target range
AxisCells(axis) ==
    LET b == collectBoundaries(AxisTarget(axis), AxisRanges(axis))
    IN  IF Len(b) < 2 THEN {Range(AxisTarget(axis).min, AxisTarget(axis).max)}
        ELSE {Range(b[i], b[i + 1]) : i \in 1..Len(b) - 1}

\* the grid cells that no single camera fully contains
CellsNoCameraContains ==
    {c \in {Region(d, l) : d \in AxisCells("distance"), l \in AxisCells("light")} :
        ~\E k \in 1..Len(hardwareCameras.items) :
            /\ hardwareCameras.items[k].distanceRange.min <= c.distanceRange.min
            /\ hardwareCameras.items[k].distanceRange.max >= c.distanceRange.max
            /\ hardwareCameras.items[k].lightRange.min <= c.lightRange.min
            /\ hardwareCameras.items[k].lightRange.max >= c.lightRange.max}

InsideTarget(c) ==
    /\ softwareSpec.distanceRange.min <= c.distanceRange.min
    /\ c.distanceRange.max <= softwareSpec.distanceRange.max
    /\ softwareSpec.lightRange.min <= c.lightRange.min
    /\ c.lightRange.max <= softwareSpec.lightRange.max

\* the result reports the uncovered cells: sufficient exactly when there is none, and
\* otherwise each of them listed once, inside the target, and counted in the statistics
ReportsUncoveredCells ==
    /\ result.isSufficient <=> CellsNoCameraContains = {}
    /\ ~result.isSufficient
        => /\ result.hasUncoveredRegions
           /\ {result.uncoveredRegions[i] : i \in 1..Len(result.uncoveredRegions)} = CellsNoCameraContains
           /\ Len(result.uncoveredRegions) = Cardinality(CellsNoCameraContains)
           /\ \A i \in 1..Len(result.uncoveredRegions) : InsideTarget(result.uncoveredRegions[i])
           /\ result.statistics.uncoveredCells = Len(result.uncoveredRegions)

\* C26: in every result of the grid scan, isSufficient is true exactly when no cell is
\* uncovered; when it is false, uncoveredRegions lists exactly the grid cells that no
\* single camera fully contains, each once, all inside the target rectangle, and
\* statistics.uncoveredCells is the length of the list.
C26_UncoveredReport == GridScanned => ReportsUncoveredCells

\* C26 for the targets with min < max on both axes
C26_UncoveredReportProperTarget == GridScanned /\ ProperTarget => ReportsUncoveredCells


(***************************************************************************)
(* C27.  The retrying flag.                                                *)
(***************************************************************************)
\* the last startCountdown() was that of a retry() and its fetch has been answered
RetryAttemptDone == pipelines # <<>> /\ Newest.byRetry /\ Newest.phase \in {"failed", "counting"}

\* C27: after retry() has set retrying, retrying is false again once the retry attempt
\* is done, both when the new fetch has failed and when it has succeeded and the
\* countdown has started.
C27_RetryingCleared == RetryAttemptDone => ~component.retrying

\* C27 for the two ways a retry attempt ends without a countdown: the new fetch has
\* failed, or the component was destroyed
C27_RetryingClearedOnFailure ==
    pipelines # <<>> /\ Newest.byRetry /\ Newest.phase \in {"failed", "closed"} => ~component.retrying


(***************************************************************************)
(* C28.  Start control of the countdown component.                         *)
(***************************************************************************)
\* the number of fetches issued so far
Fetches == Len(pipelines)

Loaded == ~component.loading /\ component.error.isNull

\* C28 as stated, the part on autoStart = false: no fetch is issued until start() is
\* called, so the first fetch of such a component is one that start() made.
C28_NoFetchUntilStart ==
    ~component.autoStart /\ Fetches > 0 => ~pipelines[1].byRetry

\* C28: with autoStart = false ngOnInit issues no fetch, and none is issued until
\* start() or retry() is called; start() issues one fetch when the component is loading
\* or in error, and nothing else, and changes no fetch and no signal when a countdown is
\* loaded without error; isRunning() is true exactly when loading is false, error is
\* null and secondsLeft > 0.
C28_StartControl ==
    [][/\ ngOnInit /\ ~component.autoStart => Fetches' = 0
       /\ ~component.autoStart /\ Fetches = 0 /\ Fetches' > 0 => start \/ retry
       /\ start /\ ~Loaded
            => Fetches' = Fetches + 1 /\ component'.loading /\ component'.error.isNull
       /\ start /\ Loaded
            => /\ pipelines' = pipelines
               /\ [component' EXCEPT !.warns = 0] = [component EXCEPT !.warns = 0]
       /\ isRunning' <=> (~component'.loading /\ component'.error = NullError /\ component'.secondsLeft > 0)
      ]_vars

\* a component with autoStart = false, started by start(), on which a second start() has
\* been a no-op while the countdown runs
C28_Witness ==
    /\ ~component.autoStart
    /\ Fetches = 1
    /\ pipelines[1].phase = "counting"
    /\ component.warns = 1
    /\ isRunning


(***************************************************************************)
(* C29.  One fetch-and-timer pipeline per component.                       *)
(***************************************************************************)
\* the subscriptions with a pending fetch or a running timer
LivePipelines == {i \in 1..Len(pipelines) : Live(pipelines[i])}

\* C29: under every interleaving of ngOnInit, start(), retry() and the answers of the
\* fetches, at most one subscription has a fetch in flight or a timer running, so that
\* only one writes secondsLeft, loading and error.
C29_AtMostOnePipeline == Cardinality(LivePipelines) <= 1


(***************************************************************************)
(* C30.  A coverage of 100 percent.                                        *)
(***************************************************************************)
\* the result says sufficient exactly when its statistics count no uncovered cell
SufficientIffNoneUncovered == result.isSufficient <=> result.statistics.uncoveredCells = 0

FullPercentage == result.statistics.coveragePercentage = 100

\* C30 as stated: in every result that carries statistics, coveragePercentage is 100 if
\* and only if isSufficient is true, which is if and only if uncoveredCells is 0,
\* whatever the number of grid cells.
C30_FullPercentageIffSufficient ==
    result.hasStatistics
        => /\ SufficientIffNoneUncovered
           /\ FullPercentage <=> result.isSufficient

\* C30: in every result that carries statistics, isSufficient is true if and only if
\* uncoveredCells is 0; for a grid of 1 to 199 cells coveragePercentage is 100 if and only
\* if isSufficient is true; for any grid with a cell a sufficient result has 100 percent,
\* and a result with 100 percent has at most one uncovered cell in 200.
C30_FullPercentage ==
    result.hasStatistics
        => /\ SufficientIffNoneUncovered
           /\ result.statistics.gridCellsChecked \in 1..199
                => (FullPercentage <=> result.isSufficient)
           /\ result.statistics.gridCellsChecked > 0 /\ result.isSufficient => FullPercentage
           /\ FullPercentage
                => 200 * result.statistics.uncoveredCells <= result.statistics.gridCellsChecked

\* 199 of the 200 unit cameras of the target 0..20 x 0..10: one cell of 200 is uncovered
\* and the percentage is 100
C30_Witness ==
    /\ result.hasStatistics
    /\ result.statistics.gridCellsChecked = 200
    /\ result.statistics.uncoveredCells = 1
    /\ ~result.isSufficient
    /\ FullPercentage

====
